---------------------------- MODULE Spec2Model ----------------------------
(***************************************************************************)
(* A state-machine model of the gbc-rs emulator's top-level scheduler      *)
(* (lib/src/lib.rs, Gameboy::init / frame / insert / eject / reset).       *)
(*                                                                         *)
(* frame() is modelled statement by statement: `pc` is the position of     *)
(* the single emulator thread inside frame(), and every call the loop body *)
(* makes (cpu.step, ppu.step, dma_step, timer.step, trigger_interrupt) is  *)
(* one action.                                                             *)
(*                                                                         *)
(* The components frame() calls (cpu, ppu, timer, joypad, dma, cartridge)  *)
(* are modules of the repository whose source is not part of src/; they    *)
(* are modelled from the design document (spec.md sections 4.5 - 4.10).    *)
(*                                                                         *)
(* Conventions.  A 5-bit interrupt register (IE, IF) is the set of its set *)
(* bit positions, so IE AND IF is set intersection and the lowest-numbered *)
(* pending interrupt is the minimum.  The cartridge is a small program:    *)
(* Fetch(r, addr) is the decoded instruction of cartridge r at addr.       *)
(***************************************************************************)
EXTENDS Integers, Sequences, FiniteSets

VARIABLES
    rom,            \* identity of the inserted cartridge ("none": BIOS only)
    cpu,            \* Gameboy.cpu: registers and interrupt state
    ppu,            \* cpu.memory.ppu
    timer,          \* cpu.memory.timer
    joypad,         \* cpu.memory.joypad
    dma,            \* OAM DMA engine: T-cycles left of the running transfer
    frame_counter,  \* Gameboy.frame_counter
    pc,             \* position inside frame(): "idle" between calls
    joypad_event,   \* frame()'s argument: NoEvent or a JoypadEvent
    speed,          \* frame() local `speed`
    num_cycles,     \* frame() local `num_cycles`
    cycle,          \* frame() local `cycle`
    cycles_taken,   \* loop local `cycles_taken`
    interrupts,     \* loop local `interrupts` (a Vec<Interrupt>)
    iter,           \* observation of the current loop iteration's calls
    last_error,     \* error returned by the most recent API call, "none" if it succeeded
    frames_done,    \* frame() calls completed since the last (re)construction
    debugger,       \* Gameboy.debugger (feature "debug")
    line,           \* Debugger::repl local `line`: the command read last
    dump_txt,       \* lines written to the instruction dump file
    paused,         \* gui() local `paused`
    joypad_events,  \* gui() local `joypad_events`
    polled,         \* every joypad event gui() has pushed, in arrival order
    delivered       \* the events handed to frame() so far, call after call

vars == <<rom, cpu, ppu, timer, joypad, dma, frame_counter, pc, joypad_event,
          speed, num_cycles, cycle, cycles_taken, interrupts, iter,
          last_error, frames_done, debugger, line, dump_txt,
          paused, joypad_events, polled, delivered>>

---------------------------------------------------------------------------
(* Bounds of the exploration *)

\* frame() calls explored after each (re)construction
MaxFrames == 2

---------------------------------------------------------------------------
(* Program constants *)

\* Gameboy::FRAME_DURATION, in ns
FRAME_DURATION == 16666666

\* Cpu::CYCLE_TIME: one T-cycle at normal speed, in ns
CYCLE_TIME == 238

\* T-cycles a CGB speed switch (KEY1 armed + STOP) costs
SPEED_SWITCH_CYCLES == 8200

\* T-cycles an interrupt dispatch costs
INTERRUPT_CYCLES == 20

\* T-cycles a step of a halted CPU costs
HALT_CYCLES == 4

\* T-cycles of an OAM DMA transfer
OAM_DMA_CYCLES == 640

\* PPU geometry: dots per scanline, scanlines per frame, first VBlank line
DOTS_PER_LINE == 456
LINES_PER_FRAME == 154
VBLANK_LINE == 144

\* Last dot of mode 2 (OAM scan) + 1 and of mode 3 (drawing) + 1
OAM_SCAN_END == 80
DRAWING_END == 252

\* TIMA reload delay after an overflow, in T-cycles
TIMA_RELOAD_DELAY == 4

---------------------------------------------------------------------------
(* Helpers *)

Min(S) == CHOOSE x \in S : \A y \in S : x <= y

Pow2(n) == 2 ^ n

\* The set of set bit positions among bits 0..4 of byte v
Bits5(v) == {b \in 0..4 : (v \div Pow2(b)) % 2 = 1}

\* The elements of a sequence (of a Vec)
Elements(seq) == {seq[k] : k \in 1..Len(seq)}

\* Bit b of v
Bit(v, b) == (v \div Pow2(b)) % 2

---------------------------------------------------------------------------
(* Interrupts (cpu::Interrupt) and the interrupt controller *)

Interrupt == {"VBlank", "Stat", "Timer", "Serial", "Joypad"}

\* Bit of IE / IF an interrupt uses
IntBit(i) ==
    CASE i = "VBlank" -> 0
      [] i = "Stat"   -> 1
      [] i = "Timer"  -> 2
      [] i = "Serial" -> 3
      [] i = "Joypad" -> 4

\* Jump vector of interrupt bit b
IntVector(b) == 64 + 8 * b

\* Cpu::trigger_interrupt: request an interrupt (set its bit in IF)
TriggerInterrupt(c, i) == [c EXCEPT !.IFreg = @ \cup {IntBit(i)}]

---------------------------------------------------------------------------
(* Cartridges.  A cartridge is a program; Fetch decodes the instruction at *)
(* an address.  Instruction lengths and base cycle costs are those of the  *)
(* LR35902 opcode table.                                                   *)

Instr(op, arg) == [op |-> op, arg |-> arg]

\* Interrupt handlers of every program: return at once
IsVector(a) == a \in {IntVector(b) : b \in 0..4}

\* "speed": sets up the timer, IE (Timer, Joypad), the joypad select (d-pad),
\* a STAT source (mode 2) and an OAM DMA, waits in HALT for the first timer
\* interrupt, then loops { arm KEY1; STOP (speed switch) }.
FetchSpeed(a) ==
    CASE a = 256 -> Instr("LDA", 5)
      [] a = 258 -> Instr("LDH", "TAC")
      [] a = 260 -> Instr("LDA", 20)
      [] a = 262 -> Instr("LDH", "IE")
      [] a = 264 -> Instr("LDA", 32)
      [] a = 266 -> Instr("LDH", "P1")
      [] a = 268 -> Instr("LDH", "STAT")
      [] a = 270 -> Instr("LDH", "DMA")
      [] a = 272 -> Instr("LDA", 240)
      [] a = 274 -> Instr("LDH", "TIMA")
      [] a = 276 -> Instr("EI", 0)
      [] a = 277 -> Instr("HALT", 0)
      [] a = 278 -> Instr("LDA", 1)
      [] a = 280 -> Instr("LDH", "KEY1")
      [] a = 282 -> Instr("STOP", 0)
      [] a = 284 -> Instr("JP", 280)
      [] IsVector(a) -> Instr("RETI", 0)
      [] OTHER -> Instr("NOP", 0)

\* "stop": enables the VBlank interrupt in IE, runs 77 NOPs, then EI and
\* STOP with KEY1 not armed.  The STOP is reached 336 T-cycles into the
\* first frame, a divisor of the PPU frame's dots.
FetchStop(a) ==
    CASE a = 256 -> Instr("LDA", 1)
      [] a = 258 -> Instr("LDH", "IE")
      [] a = 337 -> Instr("EI", 0)
      [] a = 338 -> Instr("STOP", 0)
      [] IsVector(a) -> Instr("RETI", 0)
      [] OTHER -> Instr("NOP", 0)

\* "none": no cartridge, the boot ROM locks up in a jump to itself
FetchBios(a) ==
    CASE a = 0 -> Instr("JP", 0)
      [] IsVector(a) -> Instr("RETI", 0)
      [] OTHER -> Instr("NOP", 0)

\* "ei": EI followed by each kind of instruction, 16 bytes apart
FetchEi(a) ==
    CASE a \in {512, 528, 544, 560, 576} -> Instr("EI", 0)
      [] a = 513 -> Instr("NOP", 0)
      [] a = 529 -> Instr("LDA", 7)
      [] a = 545 -> Instr("EI", 0)
      [] a = 561 -> Instr("HALT", 0)
      [] a = 577 -> Instr("JP", 512)
      [] IsVector(a) -> Instr("RETI", 0)
      [] OTHER -> Instr("NOP", 0)

\* "dbg": runs EI and a NOP, halts, and loops
FetchDbg(a) ==
    CASE a = 256 -> Instr("EI", 0)
      [] a = 257 -> Instr("NOP", 0)
      [] a = 258 -> Instr("HALT", 0)
      [] a = 259 -> Instr("JP", 256)
      [] IsVector(a) -> Instr("RETI", 0)
      [] OTHER -> Instr("NOP", 0)

\* Cartridges that load, and the ROM paths insert() may be given
GoodRoms == {"speed", "stop"}
RomPaths == GoodRoms \cup {"missing", "badmbc"}

\* Cpu::fetch: decode the instruction at addr (pure)
Fetch(r, a) ==
    CASE r = "speed" -> FetchSpeed(a)
      [] r = "stop"  -> FetchStop(a)
      [] r = "ei"    -> FetchEi(a)
      [] r = "dbg"   -> FetchDbg(a)
      [] OTHER       -> FetchBios(a)

InstrLen(i) ==
    CASE i.op \in {"NOP", "EI", "DI", "HALT", "RETI"} -> 1
      [] i.op \in {"LDA", "LDH", "STOP"} -> 2
      [] i.op = "JP" -> 3

InstrCycles(i) ==
    CASE i.op \in {"NOP", "EI", "DI", "HALT", "STOP"} -> 4
      [] i.op = "LDA" -> 8
      [] i.op = "LDH" -> 12
      [] i.op \in {"JP", "RETI"} -> 16

\* Cartridge::from_file: the error it returns, "ok" otherwise
CartridgeFromFile(path) == IF path = "missing" THEN "IoError" ELSE "ok"

\* Cpu::new: the error it returns for a loaded cartridge, "ok" otherwise
CpuNew(path) == IF path = "badmbc" THEN "UnsupportedMbc" ELSE "ok"

---------------------------------------------------------------------------
(* CPU core (design document 4.5) *)

\* Post-boot CPU state; without a cartridge the boot ROM runs from 0
CpuInit(r) ==
    [PC |-> IF r = "none" THEN 0 ELSE 256, SP |-> 65534, A |-> 17,
     IME |-> FALSE, ei_pending |-> FALSE, is_halted |-> FALSE,
     stopped |-> FALSE, speed |-> 1, key1 |-> FALSE,
     IEreg |-> {}, IFreg |-> {}, stack |-> <<>>]

\* Cpu::speed: the current speed multiplier (1 normal, 2 double)
CpuSpeed(c) == c.speed

\* Cpu::cycle_time: duration of one T-cycle in ns
CycleTime(c) == CYCLE_TIME \div c.speed

\* IE AND IF
Pending(c) == c.IEreg \cap c.IFreg

NoWrite == [reg |-> "none", val |-> 0]

StepResult(c, n, w, d) == [cpu |-> c, cycles |-> n, write |-> w, div_reset |-> d]

\* Faulty variant of ServiceInterrupt: the highest-numbered pending bit wins
ServiceHighest(c) ==
    LET b == CHOOSE x \in Pending(c) : \A y \in Pending(c) : y <= x
    IN  [c EXCEPT !.IFreg = @ \ {b},
                  !.IME = FALSE,
                  !.stack = Append(@, c.PC),
                  !.SP = (@ + 65534) % 65536,
                  !.PC = IntVector(b)]

\* Service the lowest-numbered pending interrupt
ServiceInterrupt(c) ==
    LET b == Min(Pending(c))
    IN  [c EXCEPT !.IFreg = @ \ {b},
                  !.IME = FALSE,
                  !.stack = Append(@, c.PC),
                  !.SP = (@ + 65534) % 65536,
                  !.PC = IntVector(b)]

\* Execute instruction i, fetched at c.PC
Execute(c, i) ==
    LET n == [c EXCEPT !.PC = (@ + InstrLen(i)) % 65536]
    IN  CASE i.op = "LDA" ->
               StepResult([n EXCEPT !.A = i.arg], InstrCycles(i), NoWrite, FALSE)
          [] i.op = "LDH" /\ i.arg = "IE" ->
               StepResult([n EXCEPT !.IEreg = Bits5(c.A)], InstrCycles(i), NoWrite, FALSE)
          [] i.op = "LDH" /\ i.arg = "KEY1" ->
               StepResult([n EXCEPT !.key1 = (c.A % 2 = 1)], InstrCycles(i), NoWrite, FALSE)
          [] i.op = "LDH" /\ i.arg \notin {"IE", "KEY1"} ->
               StepResult(n, InstrCycles(i), [reg |-> i.arg, val |-> c.A], FALSE)
          [] i.op = "EI" ->
               StepResult([n EXCEPT !.ei_pending = TRUE], InstrCycles(i), NoWrite, FALSE)
          [] i.op = "DI" ->
               StepResult([n EXCEPT !.IME = FALSE], InstrCycles(i), NoWrite, FALSE)
          [] i.op = "HALT" ->
               StepResult([n EXCEPT !.is_halted = TRUE], InstrCycles(i), NoWrite, FALSE)
          [] i.op = "STOP" /\ c.key1 ->
               StepResult([n EXCEPT !.speed = 3 - @, !.key1 = FALSE],
                          SPEED_SWITCH_CYCLES, NoWrite, TRUE)
          [] i.op = "STOP" /\ ~c.key1 ->
               StepResult([n EXCEPT !.stopped = TRUE], InstrCycles(i), NoWrite, FALSE)
          [] i.op = "JP" ->
               StepResult([c EXCEPT !.PC = i.arg], InstrCycles(i), NoWrite, FALSE)
          [] i.op = "RETI" ->
               StepResult([c EXCEPT !.PC = IF c.stack = <<>> THEN 0 ELSE c.stack[Len(c.stack)],
                                    !.stack = IF c.stack = <<>> THEN <<>>
                                              ELSE SubSeq(c.stack, 1, Len(c.stack) - 1),
                                    !.SP = (@ + 2) % 65536,
                                    !.IME = TRUE],
                          InstrCycles(i), NoWrite, FALSE)
          [] OTHER ->
               StepResult(n, InstrCycles(i), NoWrite, FALSE)

\* Faulty variant of AfterInstruction: EI takes effect at once
AfterInstructionImmediate(c, r) ==
    IF c.ei_pending \/ r.cpu.ei_pending
    THEN [r EXCEPT !.cpu.IME = TRUE, !.cpu.ei_pending = FALSE]
    ELSE r

\* The deferred EI: IME is set after the instruction that follows EI
AfterInstruction(c, r) ==
    IF c.ei_pending
    THEN [r EXCEPT !.cpu.IME = TRUE, !.cpu.ei_pending = FALSE]
    ELSE r

\* Cpu::step: one step of the CPU state machine; r is the cartridge
CpuStep(c, r) ==
    IF c.stopped THEN StepResult(c, 0, NoWrite, FALSE)
    ELSE IF c.is_halted /\ Pending(c) = {} THEN StepResult(c, HALT_CYCLES, NoWrite, FALSE)
    ELSE LET c1 == [c EXCEPT !.is_halted = FALSE]
         IN  IF c1.IME /\ Pending(c1) # {}
             THEN StepResult(ServiceInterrupt(c1), INTERRUPT_CYCLES, NoWrite, FALSE)
             ELSE AfterInstruction(c1, Execute(c1, Fetch(r, c1.PC)))

---------------------------------------------------------------------------
(* Timer (design document 4.8) *)

TimerInit == [counter |-> 0, tima |-> 0, tma |-> 0, tac |-> 0, reload |-> 0]

TimerEnabled(t) == Bit(t.tac, 2) = 1

\* T-cycles between two falling edges of the counter bit TAC selects
\* (bit 9, 3, 5, 7 for TAC & 3 = 0, 1, 2, 3)
TimerPeriod(t) ==
    CASE t.tac % 4 = 0 -> 1024
      [] t.tac % 4 = 1 -> 16
      [] t.tac % 4 = 2 -> 64
      [] t.tac % 4 = 3 -> 256

\* TIMA after k more increments from v, k small enough for at most one
\* overflow: on overflow TIMA reads 0 until the delayed reload
TimerTick(t, v, k) ==
    IF v + k >= 256
    THEN [t EXCEPT !.tima = 0, !.reload = TIMA_RELOAD_DELAY]
    ELSE [t EXCEPT !.tima = v + k]

\* T-cycles to the next falling edge of the selected counter bit
TimerNextEdge(t) == TimerPeriod(t) - (t.counter % TimerPeriod(t))

\* Faulty variant of TimerStep: TIMA is reloaded and the interrupt requested
\* on the overflowing tick itself, without the reload delay
TimerStepNoDelay(t, cycles) ==
    LET edges == IF TimerEnabled(t)
                 THEN ((t.counter + cycles) \div TimerPeriod(t)) - (t.counter \div TimerPeriod(t))
                 ELSE 0
        t1    == [t EXCEPT !.counter = (@ + cycles) % 65536]
    IN  IF t.tima + edges < 256
        THEN <<[t1 EXCEPT !.tima = t.tima + edges], FALSE>>
        ELSE <<[t1 EXCEPT !.tima = t.tma + ((t.tima + edges - 256) % (256 - t.tma))], TRUE>>

\* Timer::step(cycles): <<timer after the step, true iff an interrupt is due>>.
\* The counter advances by cycles; TIMA ticks on every falling edge of the
\* selected bit; an overflow leaves TIMA at 0 and, TIMA_RELOAD_DELAY cycles
\* later, reloads it from TMA and requests the interrupt.  A pending reload
\* completes before the next edge (the shortest period is 16 cycles).
TimerStep(t, cycles) ==
    LET reloads == t.reload > 0 /\ t.reload <= cycles
        v       == IF reloads THEN t.tma ELSE t.tima
        edges   == IF TimerEnabled(t)
                   THEN ((t.counter + cycles) \div TimerPeriod(t)) - (t.counter \div TimerPeriod(t))
                   ELSE 0
        span    == 256 - t.tma
        first   == 256 - v
        over    == IF v + edges < 256 THEN 0 ELSE 1 + (edges - first) \div span
        last    == first + (over - 1) * span
        at      == TimerNextEdge(t) + (last - 1) * TimerPeriod(t)
        t1      == [t EXCEPT !.counter = (@ + cycles) % 65536]
    IN  IF over = 0
        THEN <<[t1 EXCEPT !.tima = v + edges,
                          !.reload = IF reloads \/ @ = 0 THEN 0 ELSE @ - cycles],
               reloads>>
        ELSE IF at + TIMA_RELOAD_DELAY <= cycles
        THEN <<[t1 EXCEPT !.tima = t.tma + (edges - last), !.reload = 0], TRUE>>
        ELSE <<[t1 EXCEPT !.tima = 0, !.reload = TIMA_RELOAD_DELAY - (cycles - at)],
               reloads \/ over > 1>>

\* A write to DIV (and the speed switch) resets the internal counter; a
\* selected bit that was 1 falls and ticks TIMA
TimerResetDiv(t) ==
    LET was_high == TimerEnabled(t) /\ (t.counter % TimerPeriod(t)) * 2 >= TimerPeriod(t)
        t1 == [t EXCEPT !.counter = 0]
    IN  IF was_high THEN TimerTick(t1, t1.tima, 1) ELSE t1

---------------------------------------------------------------------------
(* PPU (design document 4.6) *)

PpuInit == [ly |-> 0, dot |-> 0, stat |-> {}, lyc |-> 0, stat_line |-> FALSE]

PpuMode(p) ==
    IF p.ly >= VBLANK_LINE THEN 1
    ELSE IF p.dot < OAM_SCAN_END THEN 2
    ELSE IF p.dot < DRAWING_END THEN 3
    ELSE 0

\* The internal STAT line: OR of the enabled sources
StatLine(p) ==
    \/ "lyc" \in p.stat /\ p.ly = p.lyc
    \/ "m0" \in p.stat /\ PpuMode(p) = 0
    \/ "m1" \in p.stat /\ PpuMode(p) = 1
    \/ "m2" \in p.stat /\ PpuMode(p) = 2

\* Dots of one PPU frame
PpuFrameDots == LINES_PER_FRAME * DOTS_PER_LINE

\* Position within the PPU frame, and the PPU at a position
PpuPos(p) == p.ly * DOTS_PER_LINE + p.dot
PpuAt(p, q) == [p EXCEPT !.ly = q \div DOTS_PER_LINE, !.dot = q % DOTS_PER_LINE]

\* Positions at which a mode or a line begins
PpuBoundaries ==
    {l * DOTS_PER_LINE + d : l \in 0..(VBLANK_LINE - 1), d \in {0, OAM_SCAN_END, DRAWING_END}}
    \cup {l * DOTS_PER_LINE : l \in VBLANK_LINE..(LINES_PER_FRAME - 1)}

\* Dots from position q0 forward to position q, in 1..PpuFrameDots
PpuDist(q0, q) == ((q - q0 - 1 + PpuFrameDots) % PpuFrameDots) + 1

\* Boundaries at which the STAT line of p rises: high there, low one dot before
PpuRisingAt(p) ==
    {q \in PpuBoundaries :
        /\ StatLine(PpuAt(p, q))
        /\ ~StatLine(PpuAt(p, (q + PpuFrameDots - 1) % PpuFrameDots))}

\* Faulty variant of PpuStatEdges: the STAT line is treated as a level, one
\* request per step that ends with the line high
PpuStatLevel(p, n) ==
    IF StatLine(PpuAt(p, (PpuPos(p) + n) % PpuFrameDots)) THEN 1 ELSE 0

\* Rising edges of the STAT line in a step of n dots: the line is sampled at
\* the start of the step (a register write may have raised it) and at every
\* boundary the step enters
PpuStatEdges(p, n) ==
    IF p.stat = {} THEN 0
    ELSE (IF StatLine(p) /\ ~p.stat_line THEN 1 ELSE 0)
         + (n \div PpuFrameDots) * Cardinality(PpuRisingAt(p))
         + Cardinality({q \in PpuRisingAt(p) : PpuDist(PpuPos(p), q) <= n % PpuFrameDots})

\* Ppu::step(cycles, speed, interrupts): the PPU catches up by cycles / speed
\* dots, entering every mode and line on the way.  It pushes VBlank when
\* line 144 is entered (once per step) and Stat once for every rising edge
\* of the STAT line.  Returns <<ppu, interrupts pushed>>.
PpuStep(p, cycles, spd) ==
    LET n == cycles \div spd
        final == PpuAt(p, (PpuPos(p) + n) % PpuFrameDots)
        vblank == PpuDist(PpuPos(p), VBLANK_LINE * DOTS_PER_LINE) <= n
    IN  <<[final EXCEPT !.stat_line = StatLine(final)],
          (IF vblank THEN <<"VBlank">> ELSE <<>>)
              \o [k \in 1..PpuStatEdges(p, n) |-> "Stat"]>>

\* A write to STAT: bits 3..6 enable the mode 0, 1, 2 and LYC sources
PpuWriteStat(p, v) ==
    LET en == {s \in {"m0", "m1", "m2", "lyc"} :
                  \/ s = "m0" /\ Bit(v, 3) = 1
                  \/ s = "m1" /\ Bit(v, 4) = 1
                  \/ s = "m2" /\ Bit(v, 5) = 1
                  \/ s = "lyc" /\ Bit(v, 6) = 1}
    IN  [p EXCEPT !.stat = en]

---------------------------------------------------------------------------
(* Joypad (design document 4.9) *)

Buttons == {"A", "B", "Select", "Start", "Right", "Left", "Up", "Down"}
ActionButtons == {"A", "B", "Select", "Start"}

\* P1 output line (bit 0..3) a button pulls low
ButtonLine(b) ==
    CASE b \in {"A", "Right"}     -> 0
      [] b \in {"B", "Left"}      -> 1
      [] b \in {"Select", "Up"}   -> 2
      [] b \in {"Start", "Down"}  -> 3

JoypadEvent == [kind : {"Down", "Up"}, button : Buttons]

\* Events the host passes to frame() in the explored runs
JoypadInputs == {[kind |-> "Down", button |-> "Right"], [kind |-> "Down", button |-> "A"]}

\* frame()'s argument when the host passes no event (Option::None)
NoEvent == [kind |-> "None", button |-> "None"]

\* Post-boot P1 selects both groups; no button is pressed
JoypadInit == [pressed |-> {}, sel_action |-> TRUE, sel_dpad |-> TRUE]

\* A write to P1: bit 5 = 0 selects the action buttons, bit 4 = 0 the d-pad
JoypadWriteP1(j, v) ==
    [j EXCEPT !.sel_action = (Bit(v, 5) = 0), !.sel_dpad = (Bit(v, 4) = 0)]

\* Line l reads low iff a pressed button of a selected group pulls it
LineLow(j, l) ==
    \E b \in j.pressed :
        /\ ButtonLine(b) = l
        /\ IF b \in ActionButtons THEN j.sel_action ELSE j.sel_dpad

\* Joypad::handle_event: <<joypad, true iff a selected line went high to low>>
HandleEvent(j, e) ==
    LET j1 == [j EXCEPT !.pressed = IF e.kind = "Down" THEN @ \cup {e.button}
                                    ELSE @ \ {e.button}]
    IN  <<j1, \E l \in 0..3 : ~LineLow(j, l) /\ LineLow(j1, l)>>

---------------------------------------------------------------------------
(* OAM DMA (design document 4.7) *)

\* Cpu::dma_step(cycles): the running transfer advances by cycles
DmaStep(d, cycles) == IF d > cycles THEN d - cycles ELSE 0

---------------------------------------------------------------------------
(* Debugger (lib/src/debug.rs, feature "debug") *)

\* enum Mode { Step, StepN(u32), Continue }
Mode(kind, n) == [kind |-> kind, n |-> n]

\* Debugger::new.  instruction_dump is TRUE for Some(file)
DebuggerNew ==
    [mode |-> Mode("Step", 0), checks |-> 0, steps |-> 0, breakpoints |-> <<>>,
     instructions |-> <<>>, instruction_dump |-> FALSE]

\* A command line split at spaces: line[0], the number of arguments, line[1]
\* and line[2] parsed
Line(cmd, args, arg, val) == [cmd |-> cmd, args |-> args, arg |-> arg, val |-> val]

NoLine == Line("", 0, 0, 0)

NoDebugger ==
    /\ debugger = DebuggerNew
    /\ line = NoLine
    /\ dump_txt = <<>>

\* Addresses of the memory-mapped interrupt registers
IF_ADDR == 65295
IE_ADDR == 65535

\* Faulty variant of TriggeredSkips: a halted CPU is checked like any other
TriggeredSkipsNever(c) == FALSE

\* triggered: if cpu.is_halted { return false; }
TriggeredSkips(c) == c.is_halted

\* Faulty variant of BreakpointHit: the enabled flag is ignored
BreakpointHitAny(d, a) ==
    \E k \in 1..Len(d.breakpoints) : d.breakpoints[k].addr = a

\* triggered, Mode::Continue: some enabled breakpoint is at address a
BreakpointHit(d, a) ==
    \E k \in 1..Len(d.breakpoints) :
        d.breakpoints[k].enabled /\ d.breakpoints[k].addr = a

\* triggered, Mode::StepN(n): self.checks - self.steps == n
StepNHit(d) == d.checks - d.steps = d.mode.n

\* Debugger::triggered.  res is the value returned, dump the lines written to
\* the dump file, underflow whether checks - steps went below zero
DebuggerTriggered(d, c, r) ==
    IF TriggeredSkips(c)
    THEN [debugger |-> d, res |-> FALSE, dump |-> <<>>, underflow |-> FALSE]
    ELSE LET a == c.PC
             d1 == [d EXCEPT !.instructions = Append(@, <<Fetch(r, a).op, a>>),
                             !.checks = @ + 1]
             hit == CASE d1.mode.kind = "Step" -> TRUE
                      [] d1.mode.kind = "StepN" -> StepNHit(d1)
                      [] d1.mode.kind = "Continue" -> BreakpointHit(d1, a)
         IN  [debugger |-> IF hit /\ d1.mode.kind # "Step"
                           THEN [d1 EXCEPT !.steps = d1.checks - 1] ELSE d1,
              res |-> hit,
              dump |-> IF d.instruction_dump THEN <<a>> ELSE <<>>,
              underflow |-> d1.mode.kind = "StepN" /\ d1.checks < d1.steps]

\* Faulty variant of ReplEnter: the entry is not counted
ReplEnterUncounted(d) == d

\* repl, entry: self.steps += 1
ReplEnter(d) == [d EXCEPT !.steps = @ + 1]

\* Faulty variant of SetBreakpoint: the address is pushed without the search
SetBreakpointPushes(bps, addr) == Append(bps, [addr |-> addr, enabled |-> TRUE])

\* repl "b addr": enable every breakpoint at addr, or add a new one
SetBreakpoint(bps, addr) ==
    IF \E k \in 1..Len(bps) : bps[k].addr = addr
    THEN [k \in 1..Len(bps) |->
             IF bps[k].addr = addr THEN [bps[k] EXCEPT !.enabled = TRUE] ELSE bps[k]]
    ELSE Append(bps, [addr |-> addr, enabled |-> TRUE])

\* repl "d index": Vec::remove, indices from 0
DeleteBreakpoint(bps, index) ==
    IF index >= Len(bps) THEN bps
    ELSE [k \in 1..(Len(bps) - 1) |-> IF k <= index THEN bps[k] ELSE bps[k + 1]]

\* repl "toggle index"
ToggleBreakpoint(bps, index) ==
    IF index >= Len(bps) THEN bps
    ELSE [bps EXCEPT ![index + 1].enabled = ~@]

\* repl "hist": the count asked for, 5 without an argument
HistCount(l) == IF l.args < 1 THEN 5 ELSE l.arg

\* repl "hist": the index range printed, as the unbounded integers the usize
\* expressions denote
HistRange(total, count) ==
    IF total < count
    THEN [start |-> 0, end |-> total - 1]
    ELSE [start |-> total - count - 1, end |-> total - 1]

\* repl "hist" fails: total - count - 1 is below zero.  With overflow checks
\* the subtraction panics; without them it wraps to a start above end and
\* the slice panics.
HistPanics(d, l) ==
    /\ l.cmd = "hist"
    /\ Len(d.instructions) >= 2
    /\ HistRange(Len(d.instructions), HistCount(l)).start < 0

\* The debugger after REPL command l
ReplDebugger(d, l) ==
    CASE l.cmd = "b" /\ l.args = 1 ->
           [d EXCEPT !.breakpoints = SetBreakpoint(@, l.arg)]
      [] l.cmd = "d" /\ l.args = 1 ->
           [d EXCEPT !.breakpoints = DeleteBreakpoint(@, l.arg)]
      [] l.cmd = "toggle" /\ l.args = 1 ->
           [d EXCEPT !.breakpoints = ToggleBreakpoint(@, l.arg)]
      [] l.cmd = "dump" /\ l.args = 1 ->
           [d EXCEPT !.instruction_dump = (l.arg # 0)]
      [] l.cmd = "reset" ->
           [d EXCEPT !.checks = 0, !.steps = 0, !.instructions = <<>>]
      [] l.cmd = "n" /\ l.args = 1 -> [d EXCEPT !.mode = Mode("StepN", l.arg)]
      [] l.cmd = "n" /\ l.args # 1 -> [d EXCEPT !.mode = Mode("Step", 0)]
      [] l.cmd = "r" -> [d EXCEPT !.mode = Mode("Continue", 0)]
      [] OTHER -> d

\* cpu.memory.write, for the registers the CPU record holds
MemoryWrite(c, addr, value) ==
    CASE addr = IE_ADDR -> [c EXCEPT !.IEreg = Bits5(value)]
      [] addr = IF_ADDR -> [c EXCEPT !.IFreg = Bits5(value)]
      [] OTHER -> c

\* Faulty variant of ReplCpu: no command changes the CPU
ReplCpuUntouched(c, r, l) == c

\* The CPU after REPL command l: "reset" resets it, "w addr value" writes
\* its memory, anything else (p, l, info included) leaves it alone
ReplCpu(c, r, l) ==
    CASE l.cmd = "reset" -> CpuInit(r)
      [] l.cmd = "w" /\ l.args = 2 -> MemoryWrite(c, l.arg, l.val)
      [] OTHER -> c

\* The dump file after REPL command l: File::create truncates it
ReplDump(txt, l) ==
    IF l.cmd = "dump" /\ l.args = 1 /\ l.arg # 0 THEN <<>> ELSE txt

\* repl returns to frame() on "n" and "r"
ReplReturns(l) == l.cmd \in {"n", "r"}

---------------------------------------------------------------------------
(* Host loop (emu/src/main.rs) *)

\* An SDL event: a key going down or up, or the window being closed
SdlEvent(kind, keycode) == [kind |-> kind, keycode |-> keycode]

\* keycode_to_joypad_input: the button a key is mapped to, "None" otherwise
KeycodeToJoypadInput(keycode) ==
    CASE keycode = "X"     -> "A"
      [] keycode = "Z"     -> "B"
      [] keycode = "A"     -> "Select"
      [] keycode = "S"     -> "Start"
      [] keycode \in {"Up", "Down", "Left", "Right"} -> keycode
      [] OTHER -> "None"

\* event_to_joypad: NoEvent stands for Option::None
EventToJoypad(e) ==
    IF KeycodeToJoypadInput(e.keycode) = "None" THEN NoEvent
    ELSE [kind |-> IF e.kind = "KeyDown" THEN "Down" ELSE "Up",
          button |-> KeycodeToJoypadInput(e.keycode)]

\* Faulty variant of ClearEvents: the processed events stay in the list
ClearEventsKeeps(evs) == evs

\* joypad_events.clear()
ClearEvents(evs) == <<>>

\* gui() before the event loop; nothing polled or delivered yet
NoHost ==
    /\ paused = FALSE
    /\ joypad_events = <<>>
    /\ polled = <<>>
    /\ delivered = <<>>

---------------------------------------------------------------------------
(* Gameboy (lib/src/lib.rs) *)

IterInit ==
    [calls |-> <<>>, ppu_arg |-> 0, ppu_speed |-> 1, dma_arg |-> 0,
     timer_arg |-> 0, timer_ret |-> FALSE, produced |-> {}, raised |-> {}]

\* The locals of frame() outside a call
NoFrame ==
    /\ pc = "idle"
    /\ joypad_event = NoEvent
    /\ speed = 1
    /\ num_cycles = 0
    /\ cycle = 0
    /\ cycles_taken = 0
    /\ interrupts = <<>>
    /\ iter = IterInit

\* Cpu::new / Cpu::reset: CPU and memory in their post-boot state
Boot(r) ==
    /\ cpu' = CpuInit(r)
    /\ ppu' = PpuInit
    /\ timer' = TimerInit
    /\ joypad' = JoypadInit
    /\ dma' = 0

\* Gameboy::init, for every ROM that loads and for no ROM
Init ==
    /\ rom \in GoodRoms \cup {"none"}
    /\ cpu = CpuInit(rom)
    /\ ppu = PpuInit
    /\ timer = TimerInit
    /\ joypad = JoypadInit
    /\ dma = 0
    /\ frame_counter = 0
    /\ frames_done = 0
    /\ last_error = "none"
    /\ NoFrame
    /\ NoDebugger
    /\ NoHost

machine == <<rom, cpu, ppu, timer, joypad, dma>>
tools == <<debugger, line, dump_txt>>
host == <<paused, joypad_events, polled, delivered>>
locals == <<joypad_event, speed, num_cycles, cycle, cycles_taken, interrupts, iter>>

\* Faulty variant of NumCycles: the budget of normal speed at either speed
NumCyclesNormalSpeed(c) == FRAME_DURATION \div CYCLE_TIME

\* The cycle budget of a frame
NumCycles(c) == FRAME_DURATION \div CycleTime(c)

\* frame(), entry: the budget is computed and the loop counter starts at 0
FrameStart(ev) ==
    /\ pc = "idle"
    /\ frame_counter < MaxFrames
    /\ joypad_event' = ev
    /\ speed' = CpuSpeed(cpu)
    /\ num_cycles' = NumCycles(cpu)
    /\ cycle' = 0
    /\ pc' = "loop"
    /\ last_error' = "none"
    /\ UNCHANGED <<tools, host>>
    /\ UNCHANGED <<machine, frame_counter, frames_done, cycles_taken, interrupts, iter>>

\* The IO write of a CPU step, applied to the component that owns the register
WriteTimer(t, r) ==
    LET w == r.write
        t1 == CASE w.reg = "TAC" -> [t EXCEPT !.tac = w.val % 8]
                [] w.reg = "TMA" -> [t EXCEPT !.tma = w.val]
                [] w.reg = "TIMA" -> [t EXCEPT !.tima = w.val]
                [] OTHER -> t
    IN  IF r.div_reset THEN TimerResetDiv(t1) ELSE t1

WritePpu(p, r) == IF r.write.reg = "STAT" THEN PpuWriteStat(p, r.write.val) ELSE p

WriteJoypad(j, r) == IF r.write.reg = "P1" THEN JoypadWriteP1(j, r.write.val) ELSE j

WriteDma(d, r) == IF r.write.reg = "DMA" THEN OAM_DMA_CYCLES ELSE d

\* while cycle < num_cycles { let (cycles_taken, _inst) = self.cpu.step();
\*                           let mut interrupts = Vec::new();
FrameCpuStep ==
    /\ pc = "loop"
    /\ cycle < num_cycles
    /\ LET r == CpuStep(cpu, rom)
       IN  /\ cpu' = r.cpu
           /\ timer' = WriteTimer(timer, r)
           /\ ppu' = WritePpu(ppu, r)
           /\ joypad' = WriteJoypad(joypad, r)
           /\ dma' = WriteDma(dma, r)
           /\ cycles_taken' = r.cycles
    /\ interrupts' = <<>>
    /\ iter' = [IterInit EXCEPT !.calls = <<"cpu">>]
    /\ pc' = "ppu"
    /\ UNCHANGED <<tools, host>>
    /\ UNCHANGED <<rom, frame_counter, frames_done, joypad_event, speed, num_cycles,
                   cycle, last_error>>

\* The cycle count frame() hands to ppu.step
PpuCycles == cycle + cycles_taken

\* The speed frame() hands to ppu.step
PpuSpeed == speed

\* self.cpu.memory.ppu_mut().step(cycle + cycles_taken as u32, speed, &mut interrupts);
\* (the serial check that follows pushes nothing)
FramePpuStep ==
    /\ pc = "ppu"
    /\ LET r == PpuStep(ppu, PpuCycles, PpuSpeed)
       IN  /\ ppu' = r[1]
           /\ interrupts' = interrupts \o r[2]
           /\ iter' = [iter EXCEPT !.calls = Append(@, "ppu"),
                                   !.ppu_arg = PpuCycles,
                                   !.ppu_speed = PpuSpeed,
                                   !.produced = @ \cup Elements(interrupts')]
    /\ pc' = "dma"
    /\ UNCHANGED <<tools, host>>
    /\ UNCHANGED <<rom, cpu, timer, joypad, dma, frame_counter, frames_done,
                   joypad_event, speed, num_cycles, cycle, cycles_taken, last_error>>

\* Faulty variant of FrameDmaStep: the loop body goes from dma_step straight
\* to the trigger loop, without the timer step
FrameDmaStepSkipsTimer ==
    /\ pc = "dma"
    /\ dma' = DmaStep(dma, cycles_taken)
    /\ iter' = [iter EXCEPT !.calls = Append(@, "dma"), !.dma_arg = cycles_taken]
    /\ pc' = "irq"
    /\ UNCHANGED <<tools, host>>
    /\ UNCHANGED <<rom, cpu, ppu, timer, joypad, frame_counter, frames_done,
                   joypad_event, speed, num_cycles, cycle, cycles_taken, interrupts,
                   last_error>>

\* self.cpu.dma_step(cycles_taken);
FrameDmaStep ==
    /\ pc = "dma"
    /\ dma' = DmaStep(dma, cycles_taken)
    /\ iter' = [iter EXCEPT !.calls = Append(@, "dma"), !.dma_arg = cycles_taken]
    /\ pc' = "timer"
    /\ UNCHANGED <<tools, host>>
    /\ UNCHANGED <<rom, cpu, ppu, timer, joypad, frame_counter, frames_done,
                   joypad_event, speed, num_cycles, cycle, cycles_taken, interrupts,
                   last_error>>

\* Faulty variant of TimerInterrupts: the timer's return value is ignored
TimerInterruptsDropped(ret) == <<>>

\* The interrupts the timer step adds to the Vec
TimerInterrupts(ret) == IF ret THEN <<"Timer">> ELSE <<>>

\* if self.cpu.memory.timer().step(cycles_taken) { interrupts.push(Interrupt::Timer); }
FrameTimerStep ==
    /\ pc = "timer"
    /\ LET r == TimerStep(timer, cycles_taken)
       IN  /\ timer' = r[1]
           /\ interrupts' = interrupts \o TimerInterrupts(r[2])
           /\ iter' = [iter EXCEPT !.calls = Append(@, "timer"),
                                   !.timer_arg = cycles_taken,
                                   !.timer_ret = r[2],
                                   !.produced = @ \cup (IF r[2] THEN {"Timer"} ELSE {})]
    /\ pc' = "irq"
    /\ UNCHANGED <<tools, host>>
    /\ UNCHANGED <<rom, cpu, ppu, joypad, dma, frame_counter, frames_done,
                   joypad_event, speed, num_cycles, cycle, cycles_taken, last_error>>

\* for interrupt in interrupts { self.cpu.trigger_interrupt(interrupt); }
\* A repeated request sets a bit of IF that is already set, so after the
\* first occurrence of an interrupt the later ones are passed over.
RECURSIVE TriggerAll(_, _)
TriggerAll(c, is) ==
    IF is = <<>> THEN c
    ELSE TriggerAll(TriggerInterrupt(c, Head(is)),
                    SelectSeq(Tail(is), LAMBDA i : i # Head(is)))

\* The interrupts the for loop passes to trigger_interrupt
Triggered(is) == {is[k] : k \in 1..Len(is)}

\* for interrupt in interrupts { ... }  cycle += cycles_taken as u32;
\* (cycle stays below num_cycles + one step, far below 2^32)
FrameTrigger ==
    /\ pc = "irq"
    /\ cpu' = TriggerAll(cpu, interrupts)
    /\ iter' = [iter EXCEPT !.calls = Append(@, "irq"), !.raised = Triggered(interrupts)]
    /\ interrupts' = <<>>
    /\ cycle' = cycle + cycles_taken
    /\ pc' = "loop"
    /\ UNCHANGED <<tools, host>>
    /\ UNCHANGED <<rom, ppu, timer, joypad, dma, frame_counter, frames_done,
                   joypad_event, speed, num_cycles, cycles_taken, last_error>>

\* Faulty variant of JoypadUpdate: every event raises the Joypad interrupt
JoypadUpdateAlwaysInterrupts(c, j, ev) ==
    IF ev = NoEvent THEN <<c, j>>
    ELSE <<TriggerInterrupt(c, "Joypad"), HandleEvent(j, ev)[1]>>

\* if let Some(event) = joypad_event {
\*     if joypad.handle_event(event) { cpu.trigger_interrupt(Interrupt::Joypad); } }
\* <<cpu, joypad>> after the update
JoypadUpdate(c, j, ev) ==
    IF ev = NoEvent THEN <<c, j>>
    ELSE LET r == HandleEvent(j, ev)
         IN  <<IF r[2] THEN TriggerInterrupt(c, "Joypad") ELSE c, r[1]>>

\* Faulty variant of CountFrame: the increment is lost
CountFrameLost(n) == n

\* self.frame_counter += 1 (a u64; the explored counts stay far below 2^64)
CountFrame(n) == n + 1

\* frame(), after the loop: joypad update, frame count, return
FrameEnd ==
    /\ pc = "loop"
    /\ ~(cycle < num_cycles)
    /\ cpu' = JoypadUpdate(cpu, joypad, joypad_event)[1]
    /\ joypad' = JoypadUpdate(cpu, joypad, joypad_event)[2]
    /\ frame_counter' = CountFrame(frame_counter)
    /\ frames_done' = frames_done + 1
    /\ pc' = "idle"
    /\ joypad_event' = NoEvent
    /\ speed' = 1
    /\ num_cycles' = 0
    /\ cycle' = 0
    /\ cycles_taken' = 0
    /\ interrupts' = <<>>
    /\ iter' = IterInit
    /\ UNCHANGED <<tools, host>>
    /\ UNCHANGED <<rom, ppu, timer, dma, last_error>>

\* Faulty variant of Insert: frame_counter is reset before the cartridge is
\* loaded, so a failed insert has already changed it
InsertResetsFirst(path) ==
    /\ pc = "idle"
    /\ frame_counter' = 0
    /\ IF CartridgeFromFile(path) # "ok"
       THEN /\ last_error' = CartridgeFromFile(path)
            /\ UNCHANGED <<machine, frames_done>>
       ELSE IF CpuNew(path) # "ok"
       THEN /\ last_error' = CpuNew(path)
            /\ UNCHANGED <<machine, frames_done>>
       ELSE /\ rom' = path
            /\ Boot(path)
            /\ frames_done' = 0
            /\ last_error' = "none"
    /\ UNCHANGED <<tools, host>>
    /\ UNCHANGED <<pc, locals>>

\* Gameboy::insert
Insert(path) ==
    /\ pc = "idle"
    /\ IF CartridgeFromFile(path) # "ok"
       THEN /\ last_error' = CartridgeFromFile(path)
            /\ UNCHANGED <<machine, frame_counter, frames_done>>
       ELSE IF CpuNew(path) # "ok"
       THEN /\ last_error' = CpuNew(path)
            /\ UNCHANGED <<machine, frame_counter, frames_done>>
       ELSE /\ rom' = path
            /\ Boot(path)
            /\ frame_counter' = 0
            /\ frames_done' = 0
            /\ last_error' = "none"
    /\ UNCHANGED <<tools, host>>
    /\ UNCHANGED <<pc, locals>>

\* Gameboy::eject
Eject ==
    /\ pc = "idle"
    /\ rom' = "none"
    /\ Boot("none")
    /\ frame_counter' = 0
    /\ frames_done' = 0
    /\ last_error' = "none"
    /\ UNCHANGED <<tools, host>>
    /\ UNCHANGED <<pc, locals>>

\* Gameboy::reset
Reset ==
    /\ pc = "idle"
    /\ frame_counter' = 0
    /\ Boot(rom)
    /\ frames_done' = 0
    /\ last_error' = "none"
    /\ UNCHANGED <<tools, host>>
    /\ UNCHANGED <<rom, pc, locals>>

\* The steps of a running frame() call
FrameStep ==
    \/ FrameCpuStep
    \/ FramePpuStep
    \/ FrameDmaStep
    \/ FrameTimerStep
    \/ FrameTrigger
    \/ FrameEnd

Next ==
    \/ \E ev \in JoypadInputs \cup {NoEvent} : FrameStart(ev)
    \/ FrameStep
    \/ \E path \in RomPaths : Insert(path)
    \/ Eject
    \/ Reset

Spec == Init /\ [][Next]_vars

\* Frames run back to back on a cartridge, without input: the emulator is
\* one thread, so a frame() call that has started keeps running
InitCartridge == Init /\ rom \in GoodRoms

NextFrames ==
    \/ FrameStart(NoEvent)
    \/ FrameStep

FairSpec == InitCartridge /\ [][NextFrames]_vars /\ WF_vars(FrameStep)

---------------------------------------------------------------------------
(* The CPU stepped on its own, from every interrupt state a program can   *)
(* bring it to (IME by EI / DI / RETI, IE and IF by writes and requests,   *)
(* halted by HALT, stopped by STOP).                                       *)

CpuStates ==
    {[CpuInit("speed") EXCEPT !.IME = ime, !.IEreg = ie, !.IFreg = fl,
                              !.is_halted = (m = "halted"), !.stopped = (m = "stopped")] :
        ime \in BOOLEAN, ie \in SUBSET (0..4), fl \in SUBSET (0..4),
        m \in {"running", "halted", "stopped"}}

InitCpu ==
    /\ rom = "speed"
    /\ cpu \in CpuStates
    /\ ppu = PpuInit
    /\ timer = TimerInit
    /\ joypad = JoypadInit
    /\ dma = 0
    /\ frame_counter = 0
    /\ frames_done = 0
    /\ last_error = "none"
    /\ NoFrame
    /\ NoDebugger
    /\ NoHost

\* One cpu.step() call
CpuStepAlone ==
    /\ iter.calls = <<>>
    /\ cpu' = CpuStep(cpu, rom).cpu
    /\ cycles_taken' = CpuStep(cpu, rom).cycles
    /\ iter' = [iter EXCEPT !.calls = <<"cpu">>]
    /\ UNCHANGED <<tools, host>>
    /\ UNCHANGED <<rom, ppu, timer, joypad, dma, frame_counter, pc, joypad_event,
                   speed, num_cycles, cycle, interrupts, last_error, frames_done>>

NextCpu == CpuStepAlone

SpecCpu == InitCpu /\ [][NextCpu]_vars

---------------------------------------------------------------------------
(* The CPU run for a few steps from an EI instruction, with IME clear and  *)
(* every combination of enabled and requested interrupts.                  *)

\* cpu.step() calls explored from each EI
MaxCpuSteps == 3

EiSites == {512, 528, 544, 560, 576}

InitEi ==
    /\ rom = "ei"
    /\ cpu \in {[CpuInit("ei") EXCEPT !.PC = a, !.IEreg = ie, !.IFreg = fl] :
                    a \in EiSites, ie \in SUBSET (0..4), fl \in SUBSET (0..4)}
    /\ ppu = PpuInit
    /\ timer = TimerInit
    /\ joypad = JoypadInit
    /\ dma = 0
    /\ frame_counter = 0
    /\ frames_done = 0
    /\ last_error = "none"
    /\ NoFrame
    /\ NoDebugger
    /\ NoHost

\* One more cpu.step() call
CpuStepNext ==
    /\ Len(iter.calls) < MaxCpuSteps
    /\ cpu' = CpuStep(cpu, rom).cpu
    /\ cycles_taken' = CpuStep(cpu, rom).cycles
    /\ iter' = [iter EXCEPT !.calls = Append(@, "cpu")]
    /\ UNCHANGED <<tools, host>>
    /\ UNCHANGED <<rom, ppu, timer, joypad, dma, frame_counter, pc, joypad_event,
                   speed, num_cycles, cycle, interrupts, last_error, frames_done>>

NextEi == CpuStepNext

SpecEi == InitEi /\ [][NextEi]_vars

---------------------------------------------------------------------------
(* The PPU stepped on its own with arbitrary deltas, from positions around *)
(* the line and frame boundaries, for every set of enabled STAT sources.   *)

\* ppu.step() calls explored from each start
MaxPpuSteps == 2

\* Cycle counts handed to ppu.step
PpuDeltas == {4, 80, 460}

InitPpu ==
    /\ rom = "none"
    /\ cpu = CpuInit("none")
    /\ ppu \in [ly : {143, 153}, dot : {0, 250, 452},
                stat : SUBSET {"m0", "m1", "m2", "lyc"}, lyc : {0, 144},
                stat_line : BOOLEAN]
    /\ timer = TimerInit
    /\ joypad = JoypadInit
    /\ dma = 0
    /\ frame_counter = 0
    /\ frames_done = 0
    /\ last_error = "none"
    /\ pc = "idle"
    /\ joypad_event = NoEvent
    /\ speed \in {1, 2}
    /\ num_cycles = 0
    /\ cycle = 0
    /\ cycles_taken = 0
    /\ interrupts = <<>>
    /\ iter = IterInit
    /\ NoDebugger
    /\ NoHost

\* One ppu.step(d, speed, &mut interrupts) call on a new Vec
PpuStepAlone(d) ==
    /\ Len(iter.calls) < MaxPpuSteps
    /\ ppu' = PpuStep(ppu, d, speed)[1]
    /\ interrupts' = PpuStep(ppu, d, speed)[2]
    /\ cycles_taken' = d
    /\ iter' = [iter EXCEPT !.calls = Append(@, "ppu")]
    /\ UNCHANGED <<tools, host>>
    /\ UNCHANGED <<rom, cpu, timer, joypad, dma, frame_counter, pc, joypad_event,
                   speed, num_cycles, cycle, last_error, frames_done>>

NextPpu == \E d \in PpuDeltas : PpuStepAlone(d)

SpecPpu == InitPpu /\ [][NextPpu]_vars

---------------------------------------------------------------------------
(* The timer stepped on its own from TAC = 0x05, TMA = 0xAB, TIMA = 0xFF   *)
(* and the internal counter at 0, in every split of the elapsed cycles     *)
(* into steps; `cycle` is the total advanced so far.                       *)

\* T-cycles the timer is advanced in total
MaxTimerCycles == 24

\* Cycle counts handed to timer.step
TimerDeltas == 1..20

InitTimer ==
    /\ rom = "none"
    /\ cpu = CpuInit("none")
    /\ ppu = PpuInit
    /\ timer = [counter |-> 0, tima |-> 255, tma |-> 171, tac |-> 5, reload |-> 0]
    /\ joypad = JoypadInit
    /\ dma = 0
    /\ frame_counter = 0
    /\ frames_done = 0
    /\ last_error = "none"
    /\ NoFrame
    /\ NoDebugger
    /\ NoHost

\* if timer.step(d) { interrupts.push(Interrupt::Timer); }  and the trigger loop
TimerStepAlone(d) ==
    /\ cycle + d <= MaxTimerCycles
    /\ timer' = TimerStep(timer, d)[1]
    /\ cpu' = TriggerAll(cpu, TimerInterrupts(TimerStep(timer, d)[2]))
    /\ iter' = [iter EXCEPT !.timer_arg = d, !.timer_ret = TimerStep(timer, d)[2]]
    /\ cycles_taken' = d
    /\ cycle' = cycle + d
    /\ UNCHANGED <<tools, host>>
    /\ UNCHANGED <<rom, ppu, joypad, dma, frame_counter, pc, joypad_event,
                   speed, num_cycles, interrupts, last_error, frames_done>>

NextTimer == \E d \in TimerDeltas : TimerStepAlone(d)

SpecTimer == InitTimer /\ [][NextTimer]_vars

---------------------------------------------------------------------------
(* The debug build's loop of frame() on the CPU alone: the debugger hook,  *)
(* the REPL reading one command after another, and cpu.step.  iter.calls   *)
(* lists what has run since the REPL was last left: "check" for a check of *)
(* a CPU that is not halted, and the kind of each CPU step.                *)

\* Checks explored before the debugger is reset
MaxChecks == 6

\* The command lines typed at the prompt: stepping, history, and the
\* commands that reach into the CPU
ReplLines ==
    {Line("hist", 0, 0, 0), Line("hist", 1, 0, 0), Line("hist", 1, 2, 0)}
        \cup {Line(c, 0, 0, 0) : c \in {"reset", "l", "n", "r", "q"}}
        \cup {Line("n", 1, n, 0) : n \in 1..3}
        \cup {Line("b", 1, 258, 0), Line("p", 1, IE_ADDR, 0)}
        \cup {Line("w", 2, a, 4) : a \in {IE_ADDR, IF_ADDR}}

BreakAddrs == {257, 259}

\* The command lines typed at the prompt: breakpoints and the dump file
BreakLines ==
    {Line("b", 1, a, 0) : a \in BreakAddrs}
        \cup {Line(c, 1, i, 0) : c \in {"d", "toggle", "dump"}, i \in 0..1}
        \cup {Line(c, 0, 0, 0) : c \in {"n", "r", "q"}}

InitDbg ==
    /\ rom = "dbg"
    /\ cpu = CpuInit("dbg")
    /\ ppu = PpuInit
    /\ timer = TimerInit
    /\ joypad = JoypadInit
    /\ dma = 0
    /\ frame_counter = 0
    /\ frames_done = 0
    /\ last_error = "none"
    /\ pc = "hook"
    /\ joypad_event = NoEvent
    /\ speed = 1
    /\ num_cycles = 0
    /\ cycle = 0
    /\ cycles_taken = 0
    /\ interrupts = <<>>
    /\ iter = IterInit
    /\ NoDebugger
    /\ NoHost

\* if self.debugger.triggered(&self.cpu) { self.debugger.repl(&mut self.cpu); }
\* up to the prompt of the REPL
DebuggerHook ==
    /\ pc = "hook"
    /\ debugger.checks < MaxChecks
    /\ Len(dump_txt) < MaxChecks
    /\ LET t == DebuggerTriggered(debugger, cpu, rom)
       IN  /\ debugger' = IF t.res THEN ReplEnter(t.debugger) ELSE t.debugger
           /\ dump_txt' = dump_txt \o t.dump
           /\ pc' = IF t.underflow THEN "panic" ELSE IF t.res THEN "repl" ELSE "cpu"
    /\ iter' = IF cpu.is_halted THEN iter ELSE [iter EXCEPT !.calls = Append(@, "check")]
    /\ line' = NoLine
    /\ UNCHANGED <<machine, host, frame_counter, frames_done, joypad_event, speed,
                   num_cycles, cycle, cycles_taken, interrupts, last_error>>

\* One turn of the REPL loop: read command l and carry it out
ReplCommand(l) ==
    /\ pc = "repl"
    /\ line' = l
    /\ debugger' = ReplDebugger(debugger, l)
    /\ cpu' = ReplCpu(cpu, rom, l)
    /\ dump_txt' = ReplDump(dump_txt, l)
    /\ pc' = CASE l.cmd = "q" -> "exit"
               [] HistPanics(debugger, l) -> "panic"
               [] ReplReturns(l) -> "cpu"
               [] OTHER -> "repl"
    /\ iter' = IF ReplReturns(l) THEN IterInit ELSE iter
    /\ IF l.cmd = "reset"
       THEN ppu' = PpuInit /\ timer' = TimerInit /\ joypad' = JoypadInit /\ dma' = 0
       ELSE UNCHANGED <<ppu, timer, joypad, dma>>
    /\ UNCHANGED <<rom, host, frame_counter, frames_done, joypad_event, speed,
                   num_cycles, cycle, cycles_taken, interrupts, last_error>>

\* What a CPU step from state c does: "idle" (halted, nothing pending),
\* "stopped", "irq" (an interrupt is dispatched) or "inst" (an instruction
\* executes), prefixed with "wake_" when the step finds the CPU halted
StepKind(c) ==
    IF c.stopped THEN "stopped"
    ELSE IF c.is_halted /\ Pending(c) = {} THEN "idle"
    ELSE IF c.is_halted
         THEN (IF c.IME THEN "wake_irq" ELSE "wake_inst")
         ELSE (IF c.IME /\ Pending(c) # {} THEN "irq" ELSE "inst")

\* let (cycles_taken, _inst) = self.cpu.step();
DebuggerCpuStep ==
    /\ pc = "cpu"
    /\ cpu' = CpuStep(cpu, rom).cpu
    /\ cycles_taken' = CpuStep(cpu, rom).cycles
    /\ iter' = IF StepKind(cpu) = "idle" THEN iter
               ELSE [iter EXCEPT !.calls = Append(@, StepKind(cpu))]
    /\ pc' = "hook"
    /\ UNCHANGED <<rom, ppu, timer, joypad, dma, tools, host, frame_counter,
                   frames_done, joypad_event, speed, num_cycles, cycle, interrupts,
                   last_error>>

NextDbg ==
    \/ DebuggerHook
    \/ \E l \in ReplLines : ReplCommand(l)
    \/ DebuggerCpuStep

SpecDbg == InitDbg /\ [][NextDbg]_vars

NextBreak ==
    \/ DebuggerHook
    \/ \E l \in BreakLines : ReplCommand(l)
    \/ DebuggerCpuStep

SpecBreak == InitDbg /\ [][NextBreak]_vars

\* Number of entries of a sequence that lie in set S
Count(seq, S) == Cardinality({k \in 1..Len(seq) : seq[k] \in S})

---------------------------------------------------------------------------
(* The host's event loop (emu/src/main.rs, gui): SDL events are polled one *)
(* after another, and when the poll runs dry a frame is rendered unless    *)
(* the emulator is paused.  What frame() does to the machine is the        *)
(* subject of Spec; here the call is followed by its argument and by the   *)
(* frame counter only.                                                     *)

\* Joypad events pushed in a run
MaxPolled == 3

\* frame() calls made in a run
MaxHostFrames == 3

HostKeys == {"Escape", "R", "P", "O", "X", "Right", "Q"}

SdlEvents ==
    {SdlEvent(k, c) : k \in {"KeyDown", "KeyUp"}, c \in HostKeys}
        \cup {SdlEvent("Quit", "None")}

InitHost ==
    /\ rom = "speed"
    /\ cpu = CpuInit(rom)
    /\ ppu = PpuInit
    /\ timer = TimerInit
    /\ joypad = JoypadInit
    /\ dma = 0
    /\ frame_counter = 0
    /\ frames_done = 0
    /\ last_error = "none"
    /\ NoFrame
    /\ NoDebugger
    /\ NoHost

\* The key that event e presses, "None" if e is not a key press
KeyDown(e) == IF e.kind = "KeyDown" THEN e.keycode ELSE "None"

\* The joypad event the last arm of the match pushes for e, NoEvent if e is
\* taken by an earlier arm or maps to no button
Pushed(e) ==
    IF e.kind = "Quit" \/ KeyDown(e) \in {"Escape", "R", "P", "O"} THEN NoEvent
    ELSE EventToJoypad(e)

\* for event in event_pump.poll_iter() { match event { ... } }: one event
PollEvent(e) ==
    /\ pc = "idle"
    /\ Len(polled) < MaxPolled
    /\ pc' = IF e.kind = "Quit" \/ KeyDown(e) = "Escape" THEN "exit" ELSE pc
    /\ IF KeyDown(e) = "R"
       THEN frame_counter' = 0 /\ Boot(rom)
       ELSE UNCHANGED <<frame_counter, cpu, ppu, timer, joypad, dma>>
    /\ paused' = IF KeyDown(e) = "P" THEN ~paused ELSE paused
    /\ joypad_events' = IF Pushed(e) = NoEvent THEN joypad_events
                        ELSE Append(joypad_events, Pushed(e))
    /\ polled' = IF Pushed(e) = NoEvent THEN polled
                 ELSE Append(polled, [event |-> Pushed(e), paused |-> paused])
    /\ UNCHANGED <<rom, tools, delivered, locals, last_error, frames_done>>

\* if !paused { render_frame(.., &joypad_events, ..); joypad_events.clear(); }
RenderFrame ==
    /\ pc = "idle"
    /\ ~paused
    /\ Len(delivered) < MaxHostFrames
    /\ delivered' = Append(delivered, joypad_events)
    /\ frame_counter' = CountFrame(frame_counter)
    /\ joypad_events' = ClearEvents(joypad_events)
    /\ UNCHANGED <<machine, tools, paused, polled, pc, locals, last_error, frames_done>>

NextHost ==
    \/ \E e \in SdlEvents : PollEvent(e)
    \/ RenderFrame

SpecHost == InitHost /\ [][NextHost]_vars

\* The concatenation of a sequence of sequences
Concat(ss) ==
    LET upto[k \in 0..Len(ss)] == IF k = 0 THEN <<>> ELSE upto[k - 1] \o ss[k]
    IN  upto[Len(ss)]

---------------------------------------------------------------------------
(* Properties *)

\* C1: in every iteration of the frame loop the PPU, the DMA engine and the
\* timer are each stepped by exactly the cycle count cpu.step() returned in
\* that iteration (so their per-frame sums equal the CPU's).
C1_StepDeltas ==
    pc = "irq" =>
        /\ iter.ppu_arg = cycles_taken
        /\ iter.dma_arg = cycles_taken
        /\ iter.timer_arg = cycles_taken

\* C2: every frame() call that has started eventually returns, whatever
\* state the CPU is in (halted and stopped included).
C2_FrameTerminates == (pc # "idle") ~> (pc = "idle")

\* C3: in every iteration of the frame loop the calls made so far are a
\* prefix of cpu.step, ppu.step, dma_step, timer.step, trigger loop, in
\* that order, and a finished iteration has made all five.
C3_FixedOrder ==
    /\ pc = "ppu"   => iter.calls = <<"cpu">>
    /\ pc = "dma"   => iter.calls = <<"cpu", "ppu">>
    /\ pc = "timer" => iter.calls = <<"cpu", "ppu", "dma">>
    /\ pc = "irq"   => iter.calls = <<"cpu", "ppu", "dma", "timer">>
    /\ pc = "loop"  => iter.calls \in {<<>>, <<"cpu", "ppu", "dma", "timer", "irq">>}
    /\ pc = "idle"  => iter.calls = <<>>

\* C3 witness: an iteration of a frame has run to its end.
C3_IterationDone ==
    /\ pc = "loop"
    /\ cycle > 0
    /\ iter.calls = <<"cpu", "ppu", "dma", "timer", "irq">>

C5_FrameCounter == frame_counter = frames_done

\* C5 witness: two frames have completed and have been counted.
C5_TwoFramesCounted ==
    /\ pc = "idle"
    /\ frames_done = 2
    /\ frame_counter = 2

\* C6: every interrupt the PPU step or the timer step of an iteration
\* produced is in the Vec until the trigger loop, and has been raised on
\* the CPU (its IF bit is set) when the iteration ends; Timer is raised iff
\* timer.step returned true.
C6_InterruptsRaised ==
    /\ pc \in {"dma", "timer", "irq"} =>
           {interrupts[k] : k \in 1..Len(interrupts)} = iter.produced
    /\ pc = "irq" =>
           (("Timer" \in {interrupts[k] : k \in 1..Len(interrupts)}) <=> iter.timer_ret)
    /\ (pc = "loop" /\ iter.calls # <<>>) =>
           /\ iter.raised = iter.produced
           /\ ("Timer" \in iter.raised) <=> iter.timer_ret
           /\ \A i \in iter.produced : IntBit(i) \in cpu.IFreg

\* C6 witness: an iteration ends in which timer.step returned true and the
\* Timer interrupt has been raised.
C6_TimerRaised ==
    /\ pc = "loop"
    /\ iter.timer_ret
    /\ "Timer" \in iter.raised
    /\ 2 \in cpu.IFreg

C8_InsertFailure ==
    [][ /\ pc' # "idle" => last_error' = "none"
        /\ last_error' # "none" =>
               /\ rom' = rom
               /\ cpu' = cpu
               /\ frame_counter' = frame_counter
      ]_vars

\* C8 witness: an insert has failed on an emulator that has run frames.
C8_InsertFailed ==
    /\ last_error # "none"
    /\ frame_counter > 0
    /\ cpu # CpuInit(rom)

\* C9: at every ppu.step call the speed handed to the PPU is the CPU's
\* current speed.
C9_PpuSpeedCurrent ==
    pc = "dma" => iter.ppu_speed = cpu.speed

C11_DeferredEi ==
    /\ Len(iter.calls) = 1 =>
           /\ Fetch(rom, cpu.PC - 1).op = "EI"
           /\ ~cpu.IME
           /\ cpu.stack = <<>>
    /\ Len(iter.calls) = 2 =>
           /\ cpu.IME
           /\ cpu.stack = <<>>
           /\ cycles_taken # 20
    /\ (Len(iter.calls) = 3 /\ cpu.stack # <<>>) =>
           /\ cycles_taken = 20
           /\ cpu.PC \in {64 + 8 * b : b \in cpu.IEreg}

\* C11 witness: an interrupt that was pending and enabled when EI ran is
\* serviced in the step after the instruction that follows EI.
C11_ServicedAfterNext ==
    /\ Len(iter.calls) = 3
    /\ cycles_taken = 20
    /\ cpu.stack = <<531>>
    /\ cpu.A = 7
    /\ cpu.PC = 64

\* C12: the number of STAT requests of a PPU step equals the number of
\* low-to-high transitions of the STAT line during the step, followed dot by
\* dot from the line's level before the step; in particular a step during
\* which the line stays high requests nothing.
C12_StatEdgeTriggered ==
    [][ iter'.calls # iter.calls =>
          LET n == cycles_taken' \div speed
              level(k) == StatLine(PpuAt(ppu, (ppu.ly * 456 + ppu.dot + k) % (154 * 456)))
              rises == {k \in 0..n : level(k) /\ ~(IF k = 0 THEN ppu.stat_line ELSE level(k - 1))}
              requests == {k \in 1..Len(interrupts') : interrupts'[k] = "Stat"}
          IN  /\ Cardinality(requests) = Cardinality(rises)
              /\ (ppu.stat_line /\ \A k \in 0..n : level(k)) => requests = {}
      ]_vars

\* C12 witness: with the mode 1 source enabled and the line already high,
\* the PPU has been stepped 4 dots inside line 153 and has requested nothing.
C12_NoRepeatWhileHigh ==
    /\ Len(iter.calls) = 1
    /\ speed = 1
    /\ cycles_taken = 4
    /\ ppu.stat = {"m1"}
    /\ ppu.ly = 153
    /\ ppu.dot = 254
    /\ ppu.stat_line
    /\ interrupts = <<>>

C14_CpuUntouched ==
    [][ (pc \in {"hook", "repl"}) => (cpu' = cpu) ]_vars

\* C14 (amended): triggered leaves the CPU unchanged, and so does every REPL
\* command except "reset", which puts the CPU back in its post-boot state,
\* and "w addr value", which writes value to the CPU's memory at addr.
C14_CpuChangedByResetAndWrite ==
    [][ /\ pc = "hook" => cpu' = cpu
        /\ (pc = "repl" /\ line'.cmd \notin {"reset", "w"}) => cpu' = cpu
        /\ (pc = "repl" /\ line'.cmd = "reset") => cpu' = CpuInit(rom)
        /\ (pc = "repl" /\ line'.cmd = "w" /\ line'.arg = IF_ADDR) =>
               cpu' = [cpu EXCEPT !.IFreg = Bits5(line'.val)]
        /\ (pc = "repl" /\ line'.cmd = "w" /\ line'.arg = IE_ADDR) =>
               cpu' = [cpu EXCEPT !.IEreg = Bits5(line'.val)]
      ]_vars

\* C14 witness: the REPL command "w 0xFF0F 4" has set IF bit 2 of a CPU that
\* had executed an instruction and had no interrupt requested.
C14_WrittenByRepl ==
    /\ pc = "repl"
    /\ line = Line("w", 2, IF_ADDR, 4)
    /\ cpu.PC = 257
    /\ cpu.IFreg = {2}

\* C15: frame() starts with cycle = 0 and the budget FRAME_DURATION /
\* cycle_time of the speed at entry, keeps that budget until it returns,
\* steps the CPU exactly when cycle is below the budget, adds each step's
\* cycles to cycle, and returns with budget <= cycle < budget + the cycles
\* of the last step; the next frame starts from 0 again.
C15_CycleBudget ==
    [][ /\ (pc = "idle" /\ pc' = "loop") =>
               /\ cycle' = 0
               /\ num_cycles' = FRAME_DURATION \div (CYCLE_TIME \div cpu.speed)
        /\ (pc # "idle" /\ pc' # "idle") => num_cycles' = num_cycles
        /\ (pc = "loop" /\ pc' = "ppu") => cycle < num_cycles
        /\ (pc = "loop" /\ cycle < num_cycles) => pc' = "ppu"
        /\ (pc = "irq" /\ pc' = "loop") => cycle' = cycle + cycles_taken
        /\ (pc = "loop" /\ pc' = "idle") =>
               (num_cycles <= cycle /\ cycle < num_cycles + cycles_taken)
      ]_vars

\* C15 witness: the second frame, started at double speed after the first
\* one overshot its budget, has run its own full budget and overshot it.
C15_SecondFrameOvershoots ==
    /\ pc = "loop"
    /\ frames_done = 1
    /\ speed = 2
    /\ num_cycles = 140056
    /\ cycle > num_cycles
    /\ cycle < num_cycles + cycles_taken

C17_ContinueHitsEnabled ==
    [][ /\ (pc = "hook" /\ pc' # "hook" /\ debugger.mode.kind = "Continue") =>
               ((pc' = "repl") <=>
                    /\ ~cpu.is_halted
                    /\ \E k \in 1..Len(debugger.breakpoints) :
                           /\ debugger.breakpoints[k].enabled
                           /\ debugger.breakpoints[k].addr = cpu.PC)
        /\ (pc = "repl" /\ line'.cmd = "b") =>
               /\ \E k \in 1..Len(debugger'.breakpoints) :
                      debugger'.breakpoints[k] = [addr |-> line'.arg, enabled |-> TRUE]
               /\ \A k \in 1..Len(debugger.breakpoints) :
                      debugger.breakpoints[k].addr = line'.arg =>
                          debugger'.breakpoints[k].enabled
        /\ (pc = "repl" /\ line'.cmd = "toggle" /\ line'.arg < Len(debugger.breakpoints)) =>
               debugger'.breakpoints[line'.arg + 1].enabled
                   = ~debugger.breakpoints[line'.arg + 1].enabled
        /\ (pc = "repl" /\ line'.cmd = "d" /\ line'.arg < Len(debugger.breakpoints)) =>
               Len(debugger'.breakpoints) = Len(debugger.breakpoints) - 1
      ]_vars

\* C17 witness: in Continue mode the REPL has been entered at PC = 0x101,
\* where an enabled breakpoint lies; the other breakpoint is toggled off.
C17_BreakpointHit ==
    /\ pc = "repl"
    /\ line = NoLine
    /\ debugger.mode.kind = "Continue"
    /\ cpu.PC = 257
    /\ debugger.breakpoints = <<[addr |-> 259, enabled |-> FALSE],
                                [addr |-> 257, enabled |-> TRUE]>>

\* C18: a call of triggered on a halted CPU returns false and changes
\* neither the debugger (checks, steps, history, mode, breakpoints) nor the
\* dump file.
C18_HaltedNotChecked ==
    [][ (pc = "hook" /\ cpu.is_halted) =>
            (pc' # "repl" /\ debugger' = debugger /\ dump_txt' = dump_txt) ]_vars

\* C18 witness: triggered has returned false on a halted CPU in Step mode
\* with dumping on and an enabled breakpoint at PC.
C18_HaltedInStepMode ==
    /\ pc = "cpu"
    /\ line = NoLine
    /\ cpu.is_halted
    /\ debugger.mode.kind = "Step"
    /\ debugger.instruction_dump
    /\ BreakpointHit(debugger, cpu.PC)

\* C19: after a "hist" command on a history of at least 2 instructions the
\* index range computed lies within the history: 0 <= start <= end <= total.
C19_HistInRange ==
    (pc \in {"repl", "panic"} /\ line.cmd = "hist" /\ Len(debugger.instructions) >= 2) =>
        LET r == HistRange(Len(debugger.instructions), HistCount(line))
        IN  0 <= r.start /\ r.start <= r.end /\ r.end <= Len(debugger.instructions)

\* C20: the events handed to the frame() calls so far, followed by the
\* events still in the list, are exactly the events pushed, in arrival
\* order: none is lost, none is handed over twice.  A frame() call is made
\* only while not paused, is handed the whole list, and leaves it empty;
\* while paused the list only grows at its end.
C20_PauseKeepsEvents ==
    /\ [](Concat(delivered) \o joypad_events = [k \in 1..Len(polled) |-> polled[k].event])
    /\ [][ /\ delivered' # delivered =>
                  /\ ~paused
                  /\ delivered' = Append(delivered, joypad_events)
                  /\ joypad_events' = <<>>
           /\ paused =>
                  /\ delivered' = delivered
                  /\ Len(joypad_events') >= Len(joypad_events)
                  /\ SubSeq(joypad_events', 1, Len(joypad_events)) = joypad_events
         ]_vars

\* C20 witness: two events were pushed while paused, after a first frame
\* that had none; the first frame() call after unpausing was handed both,
\* in their order of arrival, and the list is empty.
C20_DeliveredAfterUnpause ==
    /\ ~paused
    /\ Len(polled) = 2
    /\ polled[1].paused /\ polled[2].paused
    /\ delivered = <<<<>>, <<polled[1].event, polled[2].event>>>>
    /\ polled[1].event # polled[2].event
    /\ joypad_events = <<>>

\* C21: after any sequence of "b", "d" and "toggle" commands no two entries
\* of the breakpoint list have the same address.
C21_NoDuplicateBreakpoints ==
    \A j, k \in 1..Len(debugger.breakpoints) :
        debugger.breakpoints[j].addr = debugger.breakpoints[k].addr => j = k

\* C21 witness: "b 0x101" has been issued again while 0x101 was in the list
\* ahead of 0x103; the list still has one entry for each address.
C21_BreakpointReissued ==
    /\ pc = "repl"
    /\ line = Line("b", 1, 257, 0)
    /\ debugger.breakpoints = <<[addr |-> 257, enabled |-> TRUE],
                                [addr |-> 259, enabled |-> TRUE]>>

=============================================================================
